---- MODULE Spec2Model ----
(***************************************************************************)
(* State synchronizer of HyperX Pilot (the <script setup> block of the     *)
(* root component): device list loading, device selection, the sidetone    *)
(* toggle, and the two backend calls get_sidetone_state / set_sidetone.    *)
(*                                                                         *)
(* Every action is one JavaScript task: the synchronous part of a handler  *)
(* or of an async continuation, followed by the flush of the watcher jobs  *)
(* that the handler queued (Vue runs them in the microtask that follows).  *)
(***************************************************************************)
EXTENDS Integers, Sequences, FiniteSets, TLC

\* ------------------------------------------------------------------ bounds
MaxToggles == 3
MaxSwitches == 3

\* ---------------------------------------------------------- the environment
NoDevice == "null"
NoError == "null"
Undefined == "undefined"

DeviceIds == {"A", "B", "C"}

\* results of list_hyperx_devices the backend may deliver
DeviceLists == { <<>>, <<"A">>, <<"A", "B">>, <<"B", "A", "C">> }

\* values a rejected invoke() may carry
ErrorValues == { [kind |-> "Error", message |-> "IoError"],
                 [kind |-> "string", message |-> "DeviceNotFound"] }

describeError(error) ==
    IF error.kind = "Error" THEN error.message
    ELSE IF error.kind = "string" THEN error.message
    ELSE "Unknown error"

VARIABLES
    phase,                   \* "setup" | "loading" | "loaded": position of onMounted/loadDevices
    devices,                 \* ref devices
    devicesLoading,          \* ref devicesLoading
    deviceError,             \* ref deviceError
    selectedDeviceId,        \* ref selectedDeviceId
    sidetuneEnabled,         \* ref sidetuneEnabled (the observed toggle)
    sidetoneBusy,            \* ref sidetoneBusy
    sidetoneError,           \* ref sidetoneError (lastError)
    suppressSidetoneWatcher, \* let suppressSidetoneWatcher
    sidetoneRefreshPending,  \* let sidetoneRefreshPending
    inflight,                \* backend get/set calls issued and not yet completed
    nGets, nSets,            \* number of get / set calls issued so far
    hw,                      \* sidetone state of each headset
    ev,                      \* the event handled by the last step
    userToggles,             \* number of user flips of the switch
    switches,                \* number of user selections in the device select
    preToggle,               \* observed value just before the latest user flip
    nullSeen,                \* some get returned null so far
    needPrime,               \* the selection changed and no get was issued for it yet
    lastFailure              \* message and device of the latest settled call if it was rejected

vars == << phase, devices, devicesLoading, deviceError, selectedDeviceId,
           sidetuneEnabled, sidetoneBusy, sidetoneError,
           suppressSidetoneWatcher, sidetoneRefreshPending, inflight,
           nGets, nSets, hw, ev, userToggles, switches, preToggle,
           nullSeen, needPrime, lastFailure >>

\* ------------------------------------------------- the synchronizer's state
\* The fields the sidetone functions read and write, as one record.
Sync ==
    [ enabled  |-> sidetuneEnabled,
      busy     |-> sidetoneBusy,
      error    |-> sidetoneError,
      suppress |-> suppressSidetoneWatcher,
      pending  |-> sidetoneRefreshPending,
      inflight |-> inflight,
      nGets    |-> nGets,
      nSets    |-> nSets ]

Commit(s) ==
    /\ sidetuneEnabled' = s.enabled
    /\ sidetoneBusy' = s.busy
    /\ sidetoneError' = s.error
    /\ suppressSidetoneWatcher' = s.suppress
    /\ sidetoneRefreshPending' = s.pending
    /\ inflight' = s.inflight
    /\ nGets' = s.nGets
    /\ nSets' = s.nSets

\* invoke("get_sidetone_state", {deviceId}) / invoke("set_sidetone", {deviceId, enabled})
GetCall(s, deviceId) ==
    [ id |-> s.nGets + s.nSets + 1, op |-> "get", deviceId |-> deviceId,
      enabled |-> FALSE, fallback |-> FALSE ]

SetCall(s, deviceId, enabled, fallbackState) ==
    [ id |-> s.nGets + s.nSets + 1, op |-> "set", deviceId |-> deviceId,
      enabled |-> enabled, fallback |-> fallbackState ]

\* a plausible slip: the previous error is not cleared when a set starts
pushSidetoneState_KeepError(s, sel, loading, enabled, fallbackState) ==
    IF sel = NoDevice \/ loading THEN s
    ELSE [ s EXCEPT !.busy = TRUE,
                    !.inflight = @ \cup { SetCall(s, sel, enabled, fallbackState) },
                    !.nSets = @ + 1 ]

\* a plausible slip: a set does not raise busy
pushSidetoneState_NoBusy(s, sel, loading, enabled, fallbackState) ==
    IF sel = NoDevice \/ loading THEN s
    ELSE [ s EXCEPT !.error = NoError,
                    !.inflight = @ \cup { SetCall(s, sel, enabled, fallbackState) },
                    !.nSets = @ + 1 ]

\* pushSidetoneState up to its await
pushSidetoneState(s, sel, loading, enabled, fallbackState) ==
    IF sel = NoDevice \/ loading THEN s
    ELSE [ s EXCEPT !.busy = TRUE,
                    !.error = NoError,
                    !.inflight = @ \cup { SetCall(s, sel, enabled, fallbackState) },
                    !.nSets = @ + 1 ]

\* a plausible slip: a refresh that arrives while busy is dropped
refreshSidetoneState_Drop(s, sel, loading) ==
    IF sel = NoDevice \/ loading THEN s
    ELSE IF s.busy THEN s
    ELSE [ s EXCEPT !.busy = TRUE,
                    !.error = NoError,
                    !.inflight = @ \cup { GetCall(s, sel) },
                    !.nGets = @ + 1 ]

\* a plausible slip: the previous error is not cleared when a get starts
refreshSidetoneState_KeepError(s, sel, loading) ==
    IF sel = NoDevice \/ loading THEN s
    ELSE IF s.busy THEN [ s EXCEPT !.pending = TRUE ]
    ELSE [ s EXCEPT !.busy = TRUE,
                    !.inflight = @ \cup { GetCall(s, sel) },
                    !.nGets = @ + 1 ]

\* refreshSidetoneState up to its await
refreshSidetoneState(s, sel, loading) ==
    IF sel = NoDevice \/ loading THEN s
    ELSE IF s.busy THEN [ s EXCEPT !.pending = TRUE ]
    ELSE [ s EXCEPT !.busy = TRUE,
                    !.error = NoError,
                    !.inflight = @ \cup { GetCall(s, sel) },
                    !.nGets = @ + 1 ]

\* a plausible slip: finally releases busy but forgets the pending refresh
Finally_NoTrailing(s, sel, loading) ==
    [ s EXCEPT !.busy = FALSE ]

\* the finally block shared by pushSidetoneState and refreshSidetoneState
Finally(s, sel, loading) ==
    LET s1 == [ s EXCEPT !.busy = FALSE ]
    IN  IF s1.pending
        THEN refreshSidetoneState([ s1 EXCEPT !.pending = FALSE ], sel, loading)
        ELSE s1

\* a plausible slip: the watcher ignores the suppression flag
watchSidetuneEnabled_Echo(s, sel, loading, enabled, previous) ==
    IF sel = NoDevice \/ loading THEN s
    ELSE pushSidetoneState(s, sel, loading, enabled, previous)

\* a plausible slip: the new value is passed as the fallback
watchSidetuneEnabled_BadFallback(s, sel, loading, enabled, previous) ==
    IF s.suppress THEN [ s EXCEPT !.suppress = FALSE ]
    ELSE IF sel = NoDevice \/ loading THEN s
    ELSE pushSidetoneState(s, sel, loading, enabled, enabled)

\* callback of watch(sidetuneEnabled)
watchSidetuneEnabled(s, sel, loading, enabled, previous) ==
    IF s.suppress THEN [ s EXCEPT !.suppress = FALSE ]
    ELSE IF sel = NoDevice \/ loading THEN s
    ELSE \* previous ?? !enabled: the watcher is not immediate, so previous is
         \* always the boolean the ref held before
         pushSidetoneState(s, sel, loading, enabled, previous)

\* Vue runs the callback of a ref watcher only if the value differs from the
\* one the watcher saw last
FlushSidetuneWatcher(s, sel, loading, previous) ==
    IF s.enabled # previous
    THEN watchSidetuneEnabled(s, sel, loading, s.enabled, previous)
    ELSE s

\* callback of watch(selectedDeviceId, ..., {immediate: true})
watchSelectedDeviceId(s, deviceId, previous, loading) ==
    IF deviceId = previous THEN s
    ELSE IF deviceId = NoDevice
    THEN [ s EXCEPT !.error = NoError, !.suppress = TRUE, !.enabled = FALSE ]
    ELSE IF loading THEN s
    ELSE refreshSidetoneState(s, deviceId, loading)

FlushSelectedWatcher(s, deviceId, previous, loading) ==
    IF deviceId # previous
    THEN watchSelectedDeviceId(s, deviceId, previous, loading)
    ELSE s

\* the refs as declared, before the immediate watcher has run
Declared ==
    [ enabled |-> FALSE, busy |-> FALSE, error |-> NoError,
      suppress |-> FALSE, pending |-> FALSE, inflight |-> {},
      nGets |-> 0, nSets |-> 0 ]

\* a plausible slip: the switch stays enabled during a call
canToggleSidetone_NoBusy ==
    selectedDeviceId # NoDevice /\ ~devicesLoading

\* a plausible slip: the switch is enabled without a selection
canToggleSidetone_NoSelection ==
    ~devicesLoading /\ ~sidetoneBusy

canToggleSidetone ==
    selectedDeviceId # NoDevice /\ ~devicesLoading /\ ~sidetoneBusy

\* :disabled of the device select
canSelectDevice ==
    ~(devicesLoading \/ Len(devices) = 0)

\* setter of the computed deviceSelection: value || null
deviceSelectionSet(value) ==
    IF value = "" THEN NoDevice ELSE value

NewCalls == inflight' \ inflight

Primed(sel) == \E c \in NewCalls : c.op = "get" /\ c.deviceId = sel

\* bookkeeping of needPrime for a step that leaves the selection at sel
NeedPrimeNext(changed, sel) ==
    IF Primed(sel) THEN FALSE
    ELSE IF changed /\ sel # NoDevice THEN TRUE
    ELSE needPrime

\* ------------------------------------------------------------------- Init
\* setup has run: the refs are declared and the immediate run of the
\* selectedDeviceId watcher (deviceId null, previous undefined) has happened
Init ==
    LET s == watchSelectedDeviceId(Declared, NoDevice, Undefined, TRUE)
    IN  /\ phase = "setup"
        /\ devices = <<>>
        /\ devicesLoading = TRUE
        /\ deviceError = NoError
        /\ selectedDeviceId = NoDevice
        /\ sidetuneEnabled = s.enabled
        /\ sidetoneBusy = s.busy
        /\ sidetoneError = s.error
        /\ suppressSidetoneWatcher = s.suppress
        /\ sidetoneRefreshPending = s.pending
        /\ inflight = s.inflight
        /\ nGets = s.nGets
        /\ nSets = s.nSets
        /\ hw \in [DeviceIds -> BOOLEAN]
        /\ ev = [kind |-> "setup", id |-> 0]
        /\ userToggles = 0
        /\ switches = 0
        /\ preToggle = FALSE
        /\ nullSeen = FALSE
        /\ needPrime = FALSE
        /\ lastFailure = [message |-> NoError, deviceId |-> NoDevice]

\* ---------------------------------------------------------------- actions
\* onMounted: loadDevices() up to its await
Mounted ==
    /\ phase = "setup"
    /\ phase' = "loading"
    /\ devicesLoading' = TRUE
    /\ deviceError' = NoError
    /\ ev' = [kind |-> "mounted", id |-> 0]
    /\ UNCHANGED << devices, selectedDeviceId, sidetuneEnabled, sidetoneBusy,
                    sidetoneError, suppressSidetoneWatcher,
                    sidetoneRefreshPending, inflight, nGets, nSets, hw,
                    userToggles, switches, preToggle, nullSeen, needPrime,
                    lastFailure >>

\* a plausible slip: loadDevices awaits the priming get itself inside its try
\* block, so the call goes out before finally clears devicesLoading
LoadDevicesSettled_EagerGet(ok, result, message) ==
    LET sel == IF ok /\ Len(result) > 0 THEN result[1] ELSE NoDevice
        s0  == IF sel = NoDevice THEN Sync
               ELSE [ Sync EXCEPT !.inflight = @ \cup { GetCall(Sync, sel) },
                                  !.nGets = @ + 1 ]
        s1  == FlushSelectedWatcher(s0, sel, selectedDeviceId, sel # NoDevice)
        s2  == FlushSidetuneWatcher(s1, sel, sel # NoDevice, sidetuneEnabled)
    IN  /\ phase = "loading"
        /\ phase' = "loaded"
        /\ devices' = IF ok THEN result ELSE devices
        /\ deviceError' = IF ok THEN deviceError ELSE message
        /\ selectedDeviceId' = sel
        /\ devicesLoading' = (sel # NoDevice)
        /\ Commit(s2)
        /\ ev' = [kind |-> "listed", id |-> 0]
        /\ needPrime' = NeedPrimeNext(sel # selectedDeviceId, sel)
        /\ UNCHANGED << hw, userToggles, switches, preToggle, nullSeen,
                        lastFailure >>

\* the rest of loadDevices after list_hyperx_devices settled, then the watchers
LoadDevicesSettled(ok, result, message) ==
    LET sel == IF ok /\ Len(result) > 0 THEN result[1] ELSE NoDevice
        s1  == FlushSelectedWatcher(Sync, sel, selectedDeviceId, FALSE)
        s2  == FlushSidetuneWatcher(s1, sel, FALSE, sidetuneEnabled)
    IN  /\ phase = "loading"
        /\ phase' = "loaded"
        /\ devices' = IF ok THEN result ELSE devices
        /\ deviceError' = IF ok THEN deviceError ELSE message
        /\ selectedDeviceId' = sel
        /\ devicesLoading' = FALSE
        /\ Commit(s2)
        /\ ev' = [kind |-> "listed", id |-> 0]
        /\ needPrime' = NeedPrimeNext(sel # selectedDeviceId, sel)
        /\ UNCHANGED << hw, userToggles, switches, preToggle, nullSeen,
                        lastFailure >>

ListComplete ==
    \/ \E result \in DeviceLists : LoadDevicesSettled(TRUE, result, NoError)
    \/ \E error \in ErrorValues :
          LoadDevicesSettled(FALSE, <<>>, describeError(error))

Range(seq) == { seq[i] : i \in 1..Len(seq) }

\* the user picks an item of the device select
SelectDevice(value) ==
    LET sel == deviceSelectionSet(value)
        s1  == FlushSelectedWatcher(Sync, sel, selectedDeviceId, devicesLoading)
        s2  == FlushSidetuneWatcher(s1, sel, devicesLoading, sidetuneEnabled)
    IN  /\ phase = "loaded"
        /\ canSelectDevice
        /\ value \in Range(devices)
        /\ sel # selectedDeviceId
        /\ switches < MaxSwitches
        /\ switches' = switches + 1
        /\ selectedDeviceId' = sel
        /\ Commit(s2)
        /\ ev' = [kind |-> "select", id |-> switches + 1]
        /\ needPrime' = NeedPrimeNext(TRUE, sel)
        /\ UNCHANGED << phase, devices, devicesLoading, deviceError, hw,
                        userToggles, preToggle, nullSeen, lastFailure >>

\* the user flips the switch (v-model writes the ref), then the watcher runs
UserToggle ==
    LET s1 == [ Sync EXCEPT !.enabled = ~sidetuneEnabled ]
        s2 == FlushSidetuneWatcher(s1, selectedDeviceId, devicesLoading,
                                   sidetuneEnabled)
    IN  /\ canToggleSidetone
        /\ userToggles < MaxToggles
        /\ userToggles' = userToggles + 1
        /\ preToggle' = sidetuneEnabled
        /\ Commit(s2)
        /\ ev' = [kind |-> "toggle", id |-> userToggles + 1]
        /\ needPrime' = NeedPrimeNext(FALSE, selectedDeviceId)
        /\ UNCHANGED << phase, devices, devicesLoading, deviceError,
                        selectedDeviceId, hw, switches, nullSeen,
                        lastFailure >>

\* the rest of refreshSidetoneState after get_sidetone_state settled
\* outcome: "bool" (the headset's state), "null", or "error"
GetSettled(c, outcome, message) ==
    LET s0 == [ Sync EXCEPT !.inflight = @ \ {c} ]
        s1 == IF outcome = "bool"
              THEN [ s0 EXCEPT !.suppress = TRUE, !.enabled = hw[c.deviceId] ]
              ELSE IF outcome = "error"
              THEN [ s0 EXCEPT !.error = message ]
              ELSE s0
        s2 == Finally(s1, selectedDeviceId, devicesLoading)
        s3 == FlushSidetuneWatcher(s2, selectedDeviceId, devicesLoading,
                                   sidetuneEnabled)
    IN  /\ c \in inflight
        /\ c.op = "get"
        /\ Commit(s3)
        /\ ev' = [kind |-> IF outcome = "bool" THEN "getBool"
                           ELSE IF outcome = "null" THEN "getNull"
                           ELSE "getFail",
                  id |-> c.id]
        /\ nullSeen' = (nullSeen \/ outcome = "null")
        /\ lastFailure' = IF outcome = "error"
                          THEN [message |-> message, deviceId |-> c.deviceId]
                          ELSE [message |-> NoError, deviceId |-> NoDevice]
        /\ needPrime' = NeedPrimeNext(FALSE, selectedDeviceId)
        /\ UNCHANGED << phase, devices, devicesLoading, deviceError,
                        selectedDeviceId, hw, userToggles, switches,
                        preToggle >>

GetComplete ==
    \E c \in inflight :
        \/ GetSettled(c, "bool", NoError)
        \/ GetSettled(c, "null", NoError)
        \/ \E error \in ErrorValues :
              GetSettled(c, "error", describeError(error))

\* the rest of pushSidetoneState after set_sidetone settled
SetSettled(c, ok, message) ==
    LET s0 == [ Sync EXCEPT !.inflight = @ \ {c} ]
        s1 == IF ok THEN s0
              ELSE [ s0 EXCEPT !.error = message,
                               !.suppress = TRUE,
                               !.enabled = c.fallback ]
        s2 == Finally(s1, selectedDeviceId, devicesLoading)
        s3 == FlushSidetuneWatcher(s2, selectedDeviceId, devicesLoading,
                                   sidetuneEnabled)
    IN  /\ c \in inflight
        /\ c.op = "set"
        /\ Commit(s3)
        /\ hw' = IF ok THEN [ hw EXCEPT ![c.deviceId] = c.enabled ] ELSE hw
        /\ ev' = [kind |-> IF ok THEN "setOk" ELSE "setFail", id |-> c.id]
        /\ lastFailure' = IF ok THEN [message |-> NoError, deviceId |-> NoDevice]
                          ELSE [message |-> message, deviceId |-> c.deviceId]
        /\ needPrime' = NeedPrimeNext(FALSE, selectedDeviceId)
        /\ UNCHANGED << phase, devices, devicesLoading, deviceError,
                        selectedDeviceId, userToggles, switches, preToggle,
                        nullSeen >>

SetComplete ==
    \E c \in inflight :
        \/ SetSettled(c, TRUE, NoError)
        \/ \E error \in ErrorValues :
              SetSettled(c, FALSE, describeError(error))

Next ==
    \/ Mounted
    \/ ListComplete
    \/ \E value \in DeviceIds : SelectDevice(value)
    \/ UserToggle
    \/ GetComplete
    \/ SetComplete

Spec == Init /\ [][Next]_vars

\* every issued backend call eventually settles
FairSpec == Spec /\ WF_vars(GetComplete) /\ WF_vars(SetComplete)

TypeOK ==
    /\ phase \in {"setup", "loading", "loaded"}
    /\ selectedDeviceId \in DeviceIds \cup {NoDevice}
    /\ sidetuneEnabled \in BOOLEAN
    /\ sidetoneBusy \in BOOLEAN
    /\ suppressSidetoneWatcher \in BOOLEAN
    /\ sidetoneRefreshPending \in BOOLEAN
    /\ \A c \in inflight : c.op \in {"get", "set"} /\ c.deviceId \in DeviceIds

\* ------------------------------------------------------------ properties
Completion == ev'.kind \in {"getBool", "getNull", "getFail", "setOk", "setFail"}

NewSets == { c \in NewCalls : c.op = "set" }

\* the call whose completion the step handles
Settled == inflight \ inflight'

\* C1: single-flight -- in every reachable state at most one backend call
\* (get_sidetone_state or set_sidetone) is in flight, whatever the
\* interleaving of list load, toggles, switches and completions.
C1_SingleFlight == Cardinality(inflight) <= 1

\* a call is in flight, a switch arrived meanwhile and the user has toggled
C1_Witness ==
    /\ Cardinality(inflight) = 1
    /\ sidetoneRefreshPending
    /\ userToggles > 0
    /\ nGets > 0 /\ nSets > 0

\* C2: the result of a call issued for a device that is no longer the
\* selected one does not change the observed toggle.
C2_StaleResultIgnored ==
    [][ \A c \in inflight :
          (c \notin inflight' /\ c.deviceId # selectedDeviceId)
              => sidetuneEnabled' = sidetuneEnabled ]_vars

\* C3: every user toggle results in exactly one set_sidetone call that
\* carries the selected device id and the new toggle value.
C3_ToggleIssuesSet ==
    [][ userToggles' # userToggles
          => /\ Cardinality(NewSets) = 1
             /\ \A c \in NewSets : /\ c.deviceId = selectedDeviceId
                                    /\ c.enabled = sidetuneEnabled' ]_vars

\* C4: when the set issued for a user toggle from p to ~p fails, the
\* observed toggle returns to p and the rollback issues no further set.
C4_Rollback ==
    [][ ev'.kind = "setFail"
          => /\ sidetuneEnabled' = preToggle
             /\ sidetuneEnabled = ~preToggle
             /\ NewSets = {} ]_vars

\* a failed set has just been rolled back
C4_Witness ==
    /\ ev.kind = "setFail"
    /\ sidetuneEnabled = preToggle
    /\ sidetoneError # NoError

\* C5: no echo -- the number of set calls never exceeds the number of user
\* toggles, no step other than a user toggle issues a set, and a get that
\* returns true shows the toggle enabled.
C5_NoEcho ==
    /\ [](nSets <= userToggles)
    /\ [][ ev'.kind # "toggle" => NewSets = {} ]_vars
    /\ [][ (ev'.kind = "getBool" /\ \E c \in Settled : hw[c.deviceId])
             => sidetuneEnabled' ]_vars

\* a get returned true and primed the toggle; no set was ever issued
C5_Witness ==
    /\ ev.kind = "getBool"
    /\ sidetuneEnabled
    /\ nSets = 0

\* C6: a refresh request that arrives while busy issues no call and sets
\* pendingRefresh; on completion of the in-flight call exactly one get is
\* issued if a refresh is pending (none otherwise), for the device selected
\* at that moment.
C6_Coalescing ==
    /\ [][ (ev'.kind = "select" /\ sidetoneBusy)
             => (NewCalls = {} /\ sidetoneRefreshPending') ]_vars
    /\ [][ Completion
             => IF sidetoneRefreshPending
                THEN /\ Cardinality(NewCalls) = 1
                     /\ \A c \in NewCalls :
                            c.op = "get" /\ c.deviceId = selectedDeviceId'
                     /\ ~sidetoneRefreshPending'
                ELSE NewCalls = {} ]_vars

\* the trailing get after two switches during one call
C6_Witness ==
    /\ ev.kind \in {"getBool", "getNull", "getFail", "setOk", "setFail"}
    /\ switches >= 2
    /\ nGets + nSets = 2
    /\ \E c \in inflight : c.op = "get" /\ c.deviceId = selectedDeviceId

Quiescent ==
    /\ selectedDeviceId # NoDevice
    /\ inflight = {}
    /\ ~sidetoneRefreshPending
    /\ sidetoneError = NoError

\* C7: with gets that return the headset's state, whenever a device is
\* selected, nothing is in flight or pending and lastError is empty, the
\* observed toggle equals the selected headset's sidetone state.
C7_QuiescentConsistency ==
    (Quiescent /\ ~nullSeen) => sidetuneEnabled = hw[selectedDeviceId]

\* C8: with no device selected the observed toggle is false, the toggle
\* cannot be flipped and no call is issued; with an empty device list no
\* call is ever issued.
C8_EmptySelection ==
    /\ [](selectedDeviceId = NoDevice
            => (~sidetuneEnabled /\ ~canToggleSidetone))
    /\ [][ selectedDeviceId' = NoDevice => NewCalls = {} ]_vars
    /\ []((phase = "loaded" /\ devices = <<>>) => nGets + nSets = 0)

\* the list came back empty
C8_Witness ==
    /\ phase = "loaded"
    /\ devices = <<>>
    /\ selectedDeviceId = NoDevice
    /\ deviceError = NoError

\* C9: no get or set call is issued while devicesLoading is true.
C9_NoCallWhileLoading ==
    [][ devicesLoading' => NewCalls = {} ]_vars

\* the list call is outstanding
C9_Witness ==
    /\ phase = "loading"
    /\ devicesLoading
    /\ inflight = {}

\* C10: after the selection changes to a device, a get for the selected
\* device is issued: in the same step when idle, eventually when busy
\* (a get that is still owed is always eventually issued).
C10_Priming ==
    /\ [][ (selectedDeviceId' # selectedDeviceId /\ selectedDeviceId' # NoDevice
              /\ ~sidetoneBusy) => Primed(selectedDeviceId') ]_vars
    /\ []<>(~needPrime)

\* the get for the new selection went out as the trailing refresh
C10_Witness ==
    /\ switches > 0
    /\ ~needPrime
    /\ ev.kind \in {"getBool", "getNull", "getFail", "setOk", "setFail"}
    /\ \E c \in inflight : c.op = "get" /\ c.deviceId = selectedDeviceId

\* the settled call was issued for the device that is still selected
SettledForSelected == \A c \in Settled : c.deviceId = selectedDeviceId'

\* busy is released, or held again only by a call issued in this step
BusyReleased == sidetoneBusy' <=> NewCalls # {}

\* C11: when a get fails or returns null the observed toggle keeps its
\* value and no set is issued; on failure lastError holds the error message
\* and busy is released.  (The lastError part is stated for a get issued for
\* the device that is still selected.)
C11_GetFailureLeavesToggle ==
    /\ [][ ev'.kind \in {"getFail", "getNull"}
             => (sidetuneEnabled' = sidetuneEnabled /\ NewSets = {}
                 /\ BusyReleased) ]_vars
    /\ [][ (ev'.kind = "getFail" /\ SettledForSelected)
             => sidetoneError' = lastFailure'.message ]_vars

\* C12: after a set fails, lastError holds the failure message once the
\* completion has been handled, also when a refresh was pending, and busy
\* is released.  (Stated for a set issued for the device that is still
\* selected.)
C12_SetFailureSurfaced ==
    [][ (ev'.kind = "setFail" /\ SettledForSelected)
          => (sidetoneError' = lastFailure'.message /\ BusyReleased) ]_vars

\* C13: when the set issued for a user toggle to v succeeds, the observed
\* toggle still equals v, lastError is empty, nothing is rolled back, no
\* further set is issued and the headset holds v.
C13_SetSuccessKeepsValue ==
    [][ ev'.kind = "setOk"
          => /\ sidetuneEnabled' = ~preToggle
             /\ sidetuneEnabled' = sidetuneEnabled
             /\ sidetoneError' = NoError
             /\ NewSets = {}
             /\ \A c \in Settled : /\ c.enabled = sidetuneEnabled'
                                    /\ hw'[c.deviceId] = c.enabled ]_vars

\* a set succeeded and the toggle shows the value the user chose
C13_Witness ==
    /\ ev.kind = "setOk"
    /\ sidetuneEnabled = ~preToggle
    /\ sidetoneError = NoError
    /\ inflight = {}
    /\ hw[selectedDeviceId] = sidetuneEnabled

\* C14: the suppression flag is false in every state in which the user can
\* flip the toggle.
C14_FlagConsumed == canToggleSidetone => ~suppressSidetoneWatcher

Idle == ~sidetoneBusy /\ ~sidetoneRefreshPending

\* C15: with calls that settle and finitely many user events the
\* synchronizer always returns to busy false and pendingRefresh false, and
\* every completion serves the pending refresh.
C15_ReturnToIdle ==
    /\ []<>Idle
    /\ [][ Completion => ~sidetoneRefreshPending' ]_vars

\* idle again after two switches were coalesced into one trailing get
C15_Witness ==
    /\ Idle
    /\ ev.kind \in {"getBool", "getNull", "getFail"}
    /\ switches = 2
    /\ nGets = 2 /\ nSets = 0

\* C16: once the get for the new selection has been issued, lastError is
\* empty or the error of a call for the selected device; with an empty
\* selection lastError is empty.
C16_SwitchClearsError ==
    /\ (sidetoneError # NoError /\ ~needPrime)
          => /\ lastFailure.deviceId = selectedDeviceId
             /\ lastFailure.message = sidetoneError
    /\ selectedDeviceId = NoDevice => sidetoneError = NoError

\* the first get failed, then the user switched device while idle: the get
\* for the new device is out and the old error is gone
C16_Witness ==
    /\ ev.kind = "select"
    /\ switches = 1 /\ userToggles = 0
    /\ nGets = 2 /\ nSets = 0
    /\ lastFailure.deviceId # NoDevice
    /\ lastFailure.deviceId # selectedDeviceId
    /\ sidetoneError = NoError
    /\ \E c \in inflight : c.op = "get" /\ c.deviceId = selectedDeviceId

\* C17: busy is true exactly when one backend call is in flight; the toggle
\* is disabled during every call and enabled again once none is in flight.
C17_BusyMirrorsInflight ==
    /\ sidetoneBusy <=> Cardinality(inflight) = 1
    /\ ~sidetoneBusy <=> inflight = {}
    /\ inflight # {} => ~canToggleSidetone
    /\ (inflight = {} /\ selectedDeviceId # NoDevice /\ ~devicesLoading)
          => canToggleSidetone

\* a second call is in flight after the first one completed
C17_Witness ==
    /\ sidetoneBusy
    /\ Cardinality(inflight) = 1
    /\ ~canToggleSidetone
    /\ nSets >= 1 /\ nGets >= 1

\* C18: sidetoneRefreshPending is true only while busy; it is set only by
\* a refresh requested during busy and cleared by the completion that
\* releases busy.
C18_PendingImpliesBusy ==
    /\ [](sidetoneRefreshPending => sidetoneBusy)
    /\ [][ (sidetoneRefreshPending' /\ ~sidetoneRefreshPending)
             => (ev'.kind = "select" /\ sidetoneBusy) ]_vars
    /\ [][ (sidetoneRefreshPending /\ Completion)
             => ~sidetoneRefreshPending' ]_vars

\* a refresh is parked behind a set in flight
C18_Witness ==
    /\ sidetoneRefreshPending
    /\ sidetoneBusy
    /\ \E c \in inflight : c.op = "set" /\ c.deviceId # selectedDeviceId

====
